---- MODULE Spec2Model ----
(***************************************************************************)
(* Bloom filter of bloom.go: a bool slice (Store), its length (Size) and   *)
(* a bank of eight seeded murmur3 hashers, with the operations             *)
(* NewBloomFilter, Info, ComputeMurmurHash, Add and Exists.                *)
(*                                                                         *)
(* A driver constructs filter instances one after another, as PerformTests *)
(* does for each swept size, and calls Add, Exists and Info on the live    *)
(* one.  A Go panic ends the program: no operation runs once panic is set. *)
(*                                                                         *)
(* Three specifications share the variables:                               *)
(*   Spec       any sequence of calls on a filter;                         *)
(*   GenSpec    generateDataset(n), one loop iteration per step;           *)
(*   SweepSpec  main and its PerformTests goroutines, one call on a        *)
(*              filter, one channel or WaitGroup operation per step.       *)
(***************************************************************************)
EXTENDS Integers, Sequences, FiniteSets, TLC

VARIABLES
  bf,     \* the live filter instance, keyed by its instance number
  inst,   \* the number of NewBloomFilter calls made so far
  added,  \* the keys Add has been called with on the live instance
  last,   \* the most recent call and what it returned
  seen,   \* the digests of the most recent Add or Exists, on any instance
  panic,  \* the runtime panic that ended the program, if any
  gen,           \* generateDataset: its argument n, loop and loop counter
  dataset,       \* generateDataset's dataset slice
  trainDataset,  \* generateDataset's trainDataset map, as its key set
  testDataset,   \* generateDataset's testDataset map, as its key set
  mpc,           \* main: where it is
  bfsize,        \* main: the loop variable of the sweep
  wg,            \* the WaitGroup counter
  testResultsOutChan,  \* the results channel: its buffer and closed flag
  tr,            \* the PerformTests goroutines, in launch order
  testResults,   \* main: the results drained so far
  bestBloomFilter      \* main: the selected record, NilResult while nil

filterVars == <<bf, inst, added, last, seen, panic>>

genVars == <<gen, dataset, trainDataset, testDataset>>

sweepVars == <<mpc, bfsize, wg, testResultsOutChan, tr, testResults,
               bestBloomFilter>>

vars == <<filterVars, genVars, sweepVars>>

-----------------------------------------------------------------------------
(* Bounds and inputs *)

\* Largest size handed to NewBloomFilter (the smallest is -1).
MaxSize == 8

\* Number of filter instances a run constructs.
MaxInstances == 2

\* Keys handed to Add and Exists, as byte strings: "", "a", "ab".
Keys == {<< >>, <<97>>, <<97, 98>>}

SizeInputs == -1 .. MaxSize

\* The argument of generateDataset in main (20000 in the source).
DatasetN == 3

\* GenSpec calls generateDataset(n) with every n from -1 to this.
MaxGenN == 5

\* The identifiers uuid.New() returns, as byte strings: "a", "ab", "b",
\* "ba", "bb", "aa".  A call generateDataset(n) draws n - 1 of them, in any
\* order.
Ids == <<<<97>>, <<97, 98>>, <<98>>, <<98, 97>>, <<98, 98>>, <<97, 97>>>>

IdPool(n) == {Ids[j] : j \in 1 .. n - 1}

\* The sweep of main, scaled: first size (1000 in the source), step (10000)
\* and BloomFilterSize (100000), which is both the inclusive upper bound of
\* the sweep and the capacity of the results channel.
FirstSize == 3
StepSize == 2
BloomFilterSize == 8

\* The same three as the source sets them.
RefFirstSize == 1000
RefStepSize == 10000
RefBloomFilterSize == 100000

-----------------------------------------------------------------------------
(* Runtime panics of the Go program *)

NoPanic == "none"
MakeSliceLen == "makeslice: len out of range"
DivideByZero == "integer divide by zero"
IndexOutOfRange == "index out of range"
SendOnClosed == "send on closed channel"
NegativeCounter == "sync: negative WaitGroup counter"

-----------------------------------------------------------------------------
(* The murmur3 hasher, as bloom.go uses it.  The library is an external    *)
(* dependency: a hasher is its seed and the bytes written since it was     *)
(* created or reset, and Sum128 is a seeded mixing function of those       *)
(* bytes.  Digests are kept to 24 bits so that every product fits the      *)
(* checker's integers; the reduction modulo Size is the same operation on  *)
(* a narrower word.                                                        *)

DigestModulus == 2 ^ 24

\* The seeds of the eight hashers, in the order NewBloomFilter lists them.
Seeds == <<11, 31, 131, 989, 1919, 2007, 31313, 9281917>>

\* The number of hash functions.
K == 8

New128WithSeed(seed) == [seed |-> seed, buf |-> << >>]

Write(h, bytes) == [h EXCEPT !.buf = h.buf \o bytes]

Reset(h) == [h EXCEPT !.buf = << >>]

RECURSIVE Mix(_, _)
Mix(acc, bytes) ==
  IF bytes = << >> THEN acc
  ELSE Mix((acc * 101 + Head(bytes) + 1) % DigestModulus, Tail(bytes))

\* Final avalanche of one half of the state.
Fmix(x, n) ==
  LET a == (x * 97 + n + 7) % DigestModulus
  IN  ((a \div 4096) + (a % 4096) * 5 + (a \div 64)) % DigestModulus

\* Sum128 leaves the hasher as it is and returns both halves <<h1, h2>>.
Sum128(h) ==
  LET m  == Mix(h.seed % DigestModulus, h.buf)
      h1 == Fmix(m, Len(h.buf))
      h2 == Fmix((m + h1) % DigestModulus, Len(h.buf) + 1)
  IN  <<h1, h2>>

-----------------------------------------------------------------------------
(* BloomFilter *)

\* Faulty variant of MakeStore: the bits start true.
MakeStoreTrue(size) == [j \in 1 .. size |-> TRUE]

\* make([]bool, size): every bit false.
MakeStore(size) == [j \in 1 .. size |-> FALSE]

\* Faulty variant of NewFilter: the Store is one bit longer than Size.
NewFilterExtraBit(size) ==
  [ Store    |-> MakeStore(size + 1),
    Size     |-> size,
    mHashers |-> [j \in 1 .. Len(Seeds) |-> New128WithSeed(Seeds[j])] ]

\* The struct NewBloomFilter returns.
NewFilter(size) ==
  [ Store    |-> MakeStore(size),
    Size     |-> size,
    mHashers |-> [j \in 1 .. Len(Seeds) |-> New128WithSeed(Seeds[j])] ]

\* bf.Info()
InfoOf(b) == [size |-> b.Size, totalHashFuncs |-> Len(b.mHashers)]

\* Faulty variant of ComputeMurmurHash: the hasher is not reset.
ComputeMurmurHashNoReset(b, key, hashFn) ==
  LET written == Write(b.mHashers[hashFn + 1], key)
  IN  [ bf  |-> [b EXCEPT !.mHashers[hashFn + 1] = written],
        val |-> Sum128(written)[1] ]

\* Faulty variant of ComputeMurmurHash: hashFn is ignored and the first
\* hasher is used for every hash function.
ComputeMurmurHashFirstHasher(b, key, hashFn) ==
  LET written == Write(b.mHashers[1], key)
  IN  [ bf  |-> [b EXCEPT !.mHashers[1] = Reset(written)],
        val |-> Sum128(written)[1] ]

\* bf.ComputeMurmurHash(key, hashFn): the filter with hasher hashFn written,
\* read and reset, and the first half of the digest.
ComputeMurmurHash(b, key, hashFn) ==
  LET written == Write(b.mHashers[hashFn + 1], key)
      val     == Sum128(written)[1]
  IN  [ bf  |-> [b EXCEPT !.mHashers[hashFn + 1] = Reset(written)],
        val |-> val ]

\* uint64(bf.Size) for a Size that is not negative.
Uint64(size) == size

\* Faulty variant of IndexOf: the modulus is one too large.
IndexOfOffByOne(val, size) == val % (Uint64(size) + 1)

\* hash % uint64(bf.Size)
IndexOf(val, size) == val % Uint64(size)

\* Faulty variant of SetBit: the bit is inverted.
SetBitFlip(store, index) == [store EXCEPT ![index + 1] = ~@]

\* Faulty variant of SetBit: the bit is written false.
SetBitFalse(store, index) == [store EXCEPT ![index + 1] = FALSE]

\* bf.Store[index] = true
SetBit(store, index) == [store EXCEPT ![index + 1] = TRUE]

\* The loop of Add from hash function i on.  digests and idxs record the
\* digests computed and the Store indices accessed so far.  The result h of
\* ComputeMurmurHash is bound by a set constructor, so that it is computed
\* once per iteration.
RECURSIVE AddFrom(_, _, _, _, _)
AddFrom(b, key, i, digests, idxs) ==
  IF i >= Len(b.mHashers)
  THEN [bf |-> b, panic |-> NoPanic, digests |-> digests, idxs |-> idxs]
  ELSE
    LET Body(h) ==
          IF Uint64(h.bf.Size) = 0
          THEN [bf |-> h.bf, panic |-> DivideByZero,
                digests |-> Append(digests, h.val), idxs |-> idxs]
          ELSE
            LET index == IndexOf(h.val, h.bf.Size)
            IN  IF index >= Len(h.bf.Store)
                THEN [bf |-> h.bf, panic |-> IndexOutOfRange,
                      digests |-> Append(digests, h.val),
                      idxs |-> Append(idxs, index)]
                ELSE AddFrom([h.bf EXCEPT !.Store = SetBit(h.bf.Store, index)],
                             key, i + 1,
                             Append(digests, h.val), Append(idxs, index))
    IN  CHOOSE r \in {Body(h) : h \in {ComputeMurmurHash(b, key, i)}} : TRUE

\* Faulty variant of AddOf: the loop starts at hash function 1.
AddOfFromOne(b, key) == AddFrom(b, key, 1, << >>, << >>)

\* bf.Add(key)
AddOf(b, key) == AddFrom(b, key, 0, << >>, << >>)

\* The loop of Exists from hash function i on; index and ok are the two
\* values Exists returns.  h is bound as in AddFrom.
RECURSIVE ExistsFrom(_, _, _, _, _)
ExistsFrom(b, key, i, digests, idxs) ==
  IF i >= Len(b.mHashers)
  THEN [bf |-> b, panic |-> NoPanic, index |-> 0, ok |-> TRUE,
        digests |-> digests, idxs |-> idxs]
  ELSE
    LET Body(h) ==
          IF Uint64(h.bf.Size) = 0
          THEN [bf |-> h.bf, panic |-> DivideByZero, index |-> 0, ok |-> FALSE,
                digests |-> Append(digests, h.val), idxs |-> idxs]
          ELSE
            LET index == IndexOf(h.val, h.bf.Size)
            IN  IF index >= Len(h.bf.Store)
                THEN [bf |-> h.bf, panic |-> IndexOutOfRange,
                      index |-> 0, ok |-> FALSE,
                      digests |-> Append(digests, h.val),
                      idxs |-> Append(idxs, index)]
                ELSE IF ~h.bf.Store[index + 1]
                THEN [bf |-> h.bf, panic |-> NoPanic,
                      index |-> index, ok |-> FALSE,
                      digests |-> Append(digests, h.val),
                      idxs |-> Append(idxs, index)]
                ELSE ExistsFrom(h.bf, key, i + 1,
                                Append(digests, h.val), Append(idxs, index))
    IN  CHOOSE r \in {Body(h) : h \in {ComputeMurmurHash(b, key, i)}} : TRUE

\* Faulty variant of ExistsOf: the loop starts at hash function 1.
ExistsOfFromOne(b, key) == ExistsFrom(b, key, 1, << >>, << >>)

\* Faulty variant of ExistsOf: the key looked up is also recorded.
ExistsOfRecording(b, key) ==
  [ExistsFrom(b, key, 0, << >>, << >>) EXCEPT !.bf = AddOf(b, key).bf]

\* bf.Exists(key)
ExistsOf(b, key) == ExistsFrom(b, key, 0, << >>, << >>)

-----------------------------------------------------------------------------
(* The calls a driver makes *)

NoInfo == [size |-> 0, totalHashFuncs |-> 0]

Call(op, n, key, arg, ok, index, digests, idxs, info) ==
  [ op |-> op, inst |-> n, key |-> key, arg |-> arg, ok |-> ok,
    index |-> index, digests |-> digests, idxs |-> idxs, info |-> info ]

Live == inst \in DOMAIN bf

\* No filter constructed, no call made.
FilterStart ==
  /\ bf = << >>
  /\ inst = 0
  /\ added = {}
  /\ last = [ op |-> "none", inst |-> 0, key |-> << >>, arg |-> 0,
              ok |-> FALSE, index |-> 0, digests |-> << >>, idxs |-> << >>,
              info |-> NoInfo ]
  /\ seen = [key |-> << >>, digests |-> << >>]
  /\ panic = NoPanic

\* Faulty variant of GenStart: the dataset slice is made empty.
GenStartNoPlaceholder(n) ==
  /\ gen = [pc |-> "train", n |-> n, i |-> 0]
  /\ dataset = << >>
  /\ trainDataset = {}
  /\ testDataset = {}

\* generateDataset(n) at the head of its first loop: the dataset slice made
\* with one element, the empty string, and two empty maps.
GenStart(n) ==
  /\ gen = [pc |-> "train", n |-> n, i |-> 0]
  /\ dataset = << << >> >>
  /\ trainDataset = {}
  /\ testDataset = {}

\* var bestBloomFilter map[string]any: nil.
NilResult == [isNil |-> TRUE]

\* main at its call of generateDataset: channel made, no goroutine launched.
MainStart ==
  /\ mpc = "gen"
  /\ bfsize = 0
  /\ wg = 0
  /\ testResultsOutChan = [buf |-> << >>, closed |-> FALSE]
  /\ tr = << >>
  /\ testResults = << >>
  /\ bestBloomFilter = NilResult

Init ==
  /\ FilterStart
  /\ GenStart(DatasetN)
  /\ MainStart

\* bloom := NewBloomFilter(size): the previous instance is dropped.
NewBloomFilter(size) ==
  /\ panic = NoPanic
  /\ inst < MaxInstances
  /\ inst' = inst + 1
  /\ added' = {}
  /\ last' = Call("New", inst + 1, << >>, size, FALSE, 0, << >>, << >>, NoInfo)
  /\ IF size < 0
     THEN /\ panic' = MakeSliceLen
          /\ bf' = << >>
     ELSE /\ panic' = NoPanic
          /\ bf' = (inst' :> NewFilter(size))
  /\ UNCHANGED <<seen, genVars, sweepVars>>

\* bloom.Info()
Info ==
  /\ panic = NoPanic
  /\ Live
  /\ last' = Call("Info", inst, << >>, 0, FALSE, 0, << >>, << >>, InfoOf(bf[inst]))
  /\ UNCHANGED <<bf, inst, added, seen, panic, genVars, sweepVars>>

\* bloom.Add(key)
Add(key) ==
  /\ panic = NoPanic
  /\ Live
  /\ LET r == AddOf(bf[inst], key)
     IN  /\ bf' = (inst :> r.bf)
         /\ panic' = r.panic
         /\ added' = IF r.panic = NoPanic THEN added \cup {key} ELSE added
         /\ last' = Call("Add", inst, key, 0, FALSE, 0, r.digests, r.idxs, NoInfo)
         /\ seen' = [key |-> key, digests |-> r.digests]
  /\ UNCHANGED <<inst, genVars, sweepVars>>

\* bloom.Exists(key)
Exists(key) ==
  /\ panic = NoPanic
  /\ Live
  /\ LET r == ExistsOf(bf[inst], key)
     IN  /\ bf' = (inst :> r.bf)
         /\ panic' = r.panic
         /\ last' = Call("Exists", inst, key, 0, r.ok, r.index,
                         r.digests, r.idxs, NoInfo)
         /\ seen' = [key |-> key, digests |-> r.digests]
  /\ UNCHANGED <<inst, added, genVars, sweepVars>>

Next ==
  \/ \E size \in SizeInputs : NewBloomFilter(size)
  \/ Info
  \/ \E key \in Keys : Add(key)
  \/ \E key \in Keys : Exists(key)

Spec == Init /\ [][Next]_vars

-----------------------------------------------------------------------------
(* generateDataset *)

\* Go's integer division, which truncates toward zero.
GoDiv(a, b) == IF a >= 0 THEN a \div b ELSE -((-a) \div b)

\* uuid.New().String(): an identifier not returned before.
FreshIds == IdPool(gen.n) \ (trainDataset \cup testDataset)

\* for i := 0; i < int(n/2); i++ { ... trainDataset[id] = true }
GenTrain ==
  /\ panic = NoPanic
  /\ gen.pc = "train"
  /\ IF gen.i < GoDiv(gen.n, 2)
     THEN \E id \in FreshIds :
            /\ dataset' = Append(dataset, id)
            /\ trainDataset' = trainDataset \cup {id}
            /\ gen' = [gen EXCEPT !.i = @ + 1]
     ELSE /\ gen' = [gen EXCEPT !.pc = "test", !.i = GoDiv(gen.n, 2) + 1]
          /\ UNCHANGED <<dataset, trainDataset>>
  /\ UNCHANGED <<testDataset, filterVars, sweepVars>>

\* for i := int(n/2) + 1; i < n; i++ { ... testDataset[id] = true }, and
\* the return to main, which enters its sweep loop.
GenTest ==
  /\ panic = NoPanic
  /\ gen.pc = "test"
  /\ IF gen.i < gen.n
     THEN /\ \E id \in FreshIds :
               /\ dataset' = Append(dataset, id)
               /\ testDataset' = testDataset \cup {id}
               /\ gen' = [gen EXCEPT !.i = @ + 1]
          /\ UNCHANGED <<mpc, bfsize>>
     ELSE /\ gen' = [gen EXCEPT !.pc = "ret"]
          /\ mpc' = "loop"
          /\ bfsize' = FirstSize
          /\ UNCHANGED <<dataset, testDataset>>
  /\ UNCHANGED <<trainDataset, filterVars, wg, testResultsOutChan, tr,
                 testResults, bestBloomFilter>>

GenInit ==
  /\ FilterStart
  /\ \E n \in -1 .. MaxGenN : GenStart(n)
  /\ MainStart

GenNext == GenTrain \/ GenTest

GenSpec == GenInit /\ [][GenNext]_vars

-----------------------------------------------------------------------------
(* main and PerformTests *)

\* for bfsize := 1000; bfsize <= BloomFilterSize; bfsize += 10000
LoopCond(size, limit) == size <= limit

LoopNext(size, step) == size + step

\* The sizes the sweep loop visits, in order.
RECURSIVE SweepSizes(_, _, _)
SweepSizes(size, step, limit) ==
  IF LoopCond(size, limit)
  THEN <<size>> \o SweepSizes(LoopNext(size, step), step, limit)
  ELSE << >>

\* Faulty variant of ChanCap: the channel is made without a buffer.
ChanCapUnbuffered == BloomFilterSize - BloomFilterSize

\* make(chan map[string]any, BloomFilterSize)
ChanCap == BloomFilterSize

\* Faulty variant of WgAdd: the counter is not raised.
WgAddNone(w) == w

\* wg.Add(1)
WgAdd(w) == w + 1

\* wg.Done()
WgDone(w) == w - 1

\* Faulty variant of FilterOf: one filter is shared by all goroutines.
FilterShared(g) == 1

\* bloom: the filter goroutine g constructs and uses.
FilterOf(g) == g

\* A goroutine as go PerformTests(bfsize, ...) starts it.
NewTrial(size) ==
  [ pc |-> "new", bloomSize |-> size, toAdd |-> {}, qi |-> 1,
    truePositives |-> 0, falsePositives |-> 0, positives |-> 0 ]

\* 100 * float64(falsePositives) / float64(len(dataset)), as a fraction.
Percentage(falsePositives, n) == [num |-> 100 * falsePositives, den |-> n]

\* Faulty variant of PctLess: the comparison is reversed.
PctGreater(p, q) == p.num * q.den > q.num * p.den

\* p < q on two percentages.
PctLess(p, q) == p.num * q.den < q.num * p.den

\* The map PerformTests sends.
TestResult(b, falsePositives) ==
  [ bloomInfo |-> InfoOf(b),
    falsePositives |-> falsePositives,
    percentageFalsePositives |-> Percentage(falsePositives, Len(dataset)) ]

\* The selection loop of main over testResults from position j on.
RECURSIVE SelectFrom(_, _, _)
SelectFrom(results, j, best) ==
  IF j > Len(results) THEN best
  ELSE IF best = NilResult
  THEN SelectFrom(results, j + 1, results[j])
  ELSE IF PctLess(results[j].percentageFalsePositives,
                  best.percentageFalsePositives)
  THEN SelectFrom(results, j + 1, results[j])
  ELSE SelectFrom(results, j + 1, best)

\* Faulty variant of Collect: the slice is overwritten.
CollectOverwrite(results, r) == <<r>>

\* testResults = append(testResults, testResult)
Collect(results, r) == Append(results, r)

\* One pass of the sweep loop: wg.Add(1); go PerformTests(bfsize, ...), or
\* the exit of the loop.
MainLaunch ==
  /\ panic = NoPanic
  /\ mpc = "loop"
  /\ IF LoopCond(bfsize, BloomFilterSize)
     THEN /\ wg' = WgAdd(wg)
          /\ tr' = Append(tr, NewTrial(bfsize))
          /\ bfsize' = LoopNext(bfsize, StepSize)
          /\ UNCHANGED mpc
     ELSE /\ mpc' = "wait"
          /\ UNCHANGED <<wg, tr, bfsize>>
  /\ UNCHANGED <<testResultsOutChan, testResults, bestBloomFilter,
                 filterVars, genVars>>

\* wg.Wait() returns once the counter is zero.
MainWait ==
  /\ panic = NoPanic
  /\ mpc = "wait"
  /\ wg = 0
  /\ mpc' = "close"
  /\ UNCHANGED <<bfsize, wg, testResultsOutChan, tr, testResults,
                 bestBloomFilter, filterVars, genVars>>

\* close(testResultsOutChan)
MainClose ==
  /\ panic = NoPanic
  /\ mpc = "close"
  /\ testResultsOutChan' = [testResultsOutChan EXCEPT !.closed = TRUE]
  /\ mpc' = "drain"
  /\ UNCHANGED <<bfsize, wg, tr, testResults, bestBloomFilter,
                 filterVars, genVars>>

\* for testResult := range testResultsOutChan: one receive, or the end of
\* the loop when the channel is closed and empty.
MainDrain ==
  /\ panic = NoPanic
  /\ mpc = "drain"
  /\ IF testResultsOutChan.buf # << >>
     THEN /\ testResults' = Collect(testResults, Head(testResultsOutChan.buf))
          /\ testResultsOutChan' = [testResultsOutChan EXCEPT !.buf = Tail(@)]
          /\ UNCHANGED mpc
     ELSE /\ testResultsOutChan.closed
          /\ mpc' = "select"
          /\ UNCHANGED <<testResults, testResultsOutChan>>
  /\ UNCHANGED <<bfsize, wg, tr, bestBloomFilter, filterVars, genVars>>

\* The selection of the minimum and its print.
MainSelect ==
  /\ panic = NoPanic
  /\ mpc = "select"
  /\ bestBloomFilter' = SelectFrom(testResults, 1, NilResult)
  /\ mpc' = "done"
  /\ UNCHANGED <<bfsize, wg, testResultsOutChan, tr, testResults,
                 filterVars, genVars>>

\* bloom := NewBloomFilter(int32(bloomSize))
TrialNew(g) ==
  /\ panic = NoPanic
  /\ g \in DOMAIN tr
  /\ tr[g].pc = "new"
  /\ IF tr[g].bloomSize < 0
     THEN /\ panic' = MakeSliceLen
          /\ UNCHANGED <<bf, tr>>
     ELSE /\ bf' = (FilterOf(g) :> NewFilter(tr[g].bloomSize)) @@ bf
          /\ tr' = [tr EXCEPT ![g].toAdd = trainDataset,
                              ![g].pc = IF trainDataset = {}
                                        THEN "query" ELSE "add"]
          /\ UNCHANGED panic
  /\ UNCHANGED <<inst, added, last, seen, genVars, mpc, bfsize, wg,
                 testResultsOutChan, testResults, bestBloomFilter>>

\* for key := range trainDataset { bloom.Add(key) }: one iteration, on any
\* key not yet visited.
TrialAdd(g) ==
  /\ panic = NoPanic
  /\ g \in DOMAIN tr
  /\ tr[g].pc = "add"
  /\ \E key \in tr[g].toAdd :
       \E r \in {AddOf(bf[FilterOf(g)], key)} :
           /\ bf' = [bf EXCEPT ![FilterOf(g)] = r.bf]
           /\ panic' = r.panic
           /\ tr' = [tr EXCEPT ![g].toAdd = @ \ {key},
                               ![g].pc = IF tr[g].toAdd = {key}
                                         THEN "query" ELSE "add"]
  /\ UNCHANGED <<inst, added, last, seen, genVars, mpc, bfsize, wg,
                 testResultsOutChan, testResults, bestBloomFilter>>

\* for _, key := range dataset { ... }: one iteration.
TrialQuery(g) ==
  /\ panic = NoPanic
  /\ g \in DOMAIN tr
  /\ tr[g].pc = "query"
  /\ \E r \in {ExistsOf(bf[FilterOf(g)], dataset[tr[g].qi])} :
     LET key == dataset[tr[g].qi]
         tp  == IF r.ok /\ key \in trainDataset THEN 1 ELSE 0
         fp  == IF r.ok /\ key \in testDataset THEN 1 ELSE 0
     IN  /\ bf' = [bf EXCEPT ![FilterOf(g)] = r.bf]
         /\ panic' = r.panic
         /\ tr' = [tr EXCEPT ![g].truePositives = @ + tp,
                             ![g].falsePositives = @ + fp,
                             ![g].positives = @ + (IF r.ok THEN 1 ELSE 0),
                             ![g].qi = @ + 1,
                             ![g].pc = IF tr[g].qi = Len(dataset)
                                       THEN "send" ELSE "query"]
  /\ UNCHANGED <<inst, added, last, seen, genVars, mpc, bfsize, wg,
                 testResultsOutChan, testResults, bestBloomFilter>>

\* testResultsOutChan <- testResult: blocks while the buffer is full,
\* panics on a closed channel.
TrialSend(g) ==
  /\ panic = NoPanic
  /\ g \in DOMAIN tr
  /\ tr[g].pc = "send"
  /\ IF testResultsOutChan.closed
     THEN /\ panic' = SendOnClosed
          /\ UNCHANGED <<testResultsOutChan, tr>>
     ELSE /\ Len(testResultsOutChan.buf) < ChanCap
          /\ testResultsOutChan' =
               [testResultsOutChan EXCEPT !.buf =
                  Append(@, TestResult(bf[FilterOf(g)], tr[g].falsePositives))]
          /\ tr' = [tr EXCEPT ![g].pc = "done"]
          /\ UNCHANGED panic
  /\ UNCHANGED <<bf, inst, added, last, seen, genVars, mpc, bfsize, wg,
                 testResults, bestBloomFilter>>

\* defer wg.Done()
TrialDone(g) ==
  /\ panic = NoPanic
  /\ g \in DOMAIN tr
  /\ tr[g].pc = "done"
  /\ wg' = WgDone(wg)
  /\ panic' = IF WgDone(wg) < 0 THEN NegativeCounter ELSE NoPanic
  /\ tr' = [tr EXCEPT ![g].pc = "exit"]
  /\ UNCHANGED <<bf, inst, added, last, seen, genVars, mpc, bfsize,
                 testResultsOutChan, testResults, bestBloomFilter>>

MainStep ==
  \/ GenTrain
  \/ GenTest
  \/ MainLaunch
  \/ MainWait
  \/ MainClose
  \/ MainDrain
  \/ MainSelect

TrialStep(g) ==
  \/ TrialNew(g)
  \/ TrialAdd(g)
  \/ TrialQuery(g)
  \/ TrialSend(g)
  \/ TrialDone(g)

\* The goroutines a sweep can launch.
\* One goroutine per iteration of the launch loop.
Goroutines == 1 .. Len(SweepSizes(FirstSize, StepSize, BloomFilterSize))

SweepNext == MainStep \/ \E g \in Goroutines : TrialStep(g)

SweepSpec == Init /\ [][SweepNext]_vars

\* The Go scheduler lets main and every goroutine that can run take steps.
FairSweepSpec ==
  /\ SweepSpec
  /\ WF_vars(MainStep)
  /\ \A g \in Goroutines : WF_vars(TrialStep(g))

-----------------------------------------------------------------------------
(* Reference notions used by the properties *)

\* digest(key, i): what hasher i, freshly seeded, returns for key.
Digest(key, i) == Sum128(Write(New128WithSeed(Seeds[i + 1]), key))[1]

\* The Store indices of key in a filter of the given size.
BitIndices(key, size) == {Digest(key, i) % size : i \in 0 .. K - 1}

\* Full evaluation of the K bits of key, without short circuit.
AllBitsSet(b, key) ==
  \A i \in 0 .. K - 1 : b.Store[(Digest(key, i) % b.Size) + 1]

Running == Live /\ panic = NoPanic

TrueBits(b) == {j \in DOMAIN b.Store : b.Store[j]}

-----------------------------------------------------------------------------
(* Properties *)

\* C1: no false negatives.  A key that Add was called with is reported
\* present by every later Exists on that filter, whatever else was added.
NoFalseNegatives ==
  /\ (last.op = "Exists" /\ panic = NoPanic /\ last.key \in added) => last.ok
  /\ Running => \A k \in added : ExistsOf(bf[inst], k).ok

\* C1 witness: Exists answered true for an added key in a filter that holds
\* two keys and still rejects a third.
NoFalseNegativesWitness ==
  /\ Running
  /\ last.op = "Exists" /\ last.key \in added /\ last.ok
  /\ Cardinality(added) >= 2
  /\ \E k \in Keys \ added : ~ExistsOf(bf[inst], k).ok

\* C2: a Store bit that is true before a step on a filter is true after it.
BitsNeverCleared ==
  [][(Live /\ inst' = inst) =>
       \A j \in DOMAIN bf[inst].Store :
         bf[inst].Store[j] =>
           (j \in DOMAIN bf'[inst].Store /\ bf'[inst].Store[j])]_vars

\* C2 witness: an Add on a filter that already held a key, leaving some bits
\* true and some false.
BitsNeverClearedWitness ==
  /\ Running
  /\ last.op = "Add" /\ Cardinality(added) >= 2
  /\ TrueBits(bf[inst]) # {}
  /\ TrueBits(bf[inst]) # DOMAIN bf[inst].Store

\* C3: Add(key) sets exactly the bits at digest(key, i) mod Size, i in 0..K-1,
\* and leaves every other bit as it was.
AddSetsExactlyItsBits ==
  [][(last'.op = "Add" /\ panic' = NoPanic) =>
       bf'[inst].Store =
         [j \in DOMAIN bf[inst].Store |->
            bf[inst].Store[j]
              \/ (j - 1) \in BitIndices(last'.key, bf[inst].Size)]]_vars

\* C3 witness: an Add that set some bits, kept earlier ones and left others
\* false.
AddSetsExactlyItsBitsWitness ==
  /\ Running
  /\ last.op = "Add" /\ Cardinality(added) >= 2
  /\ \E j \in TrueBits(bf[inst]) :
       (j - 1) \notin BitIndices(last.key, bf[inst].Size)
  /\ TrueBits(bf[inst]) # DOMAIN bf[inst].Store

\* C4: Exists(key) is true exactly when all K bits of key are true: the
\* short-circuiting loop returns what a full evaluation returns.
ExistsIsAllBits ==
  /\ (last.op = "Exists" /\ panic = NoPanic) =>
       (last.ok <=> AllBitsSet(bf[inst], last.key))
  /\ (Running /\ bf[inst].Size >= 1) =>
       \A k \in Keys : ExistsOf(bf[inst], k).ok <=> AllBitsSet(bf[inst], k)

\* C4 witness: an Exists that short-circuited in the middle of the loop, after
\* finding some bits true.
ExistsIsAllBitsWitness ==
  /\ Running
  /\ last.op = "Exists" /\ ~last.ok
  /\ Len(last.idxs) > 1 /\ Len(last.idxs) < K
  /\ added # {}

\* C5: Exists and Info leave Store and Size as they were; a step that
\* changes the Store of a filter is an Add.
ExistsAndInfoReadOnly ==
  [][/\ last'.op \in {"Exists", "Info"} =>
          /\ inst' = inst
          /\ bf'[inst].Store = bf[inst].Store
          /\ bf'[inst].Size = bf[inst].Size
     /\ (Live /\ inst' = inst /\ bf'[inst].Store # bf[inst].Store) =>
          last'.op = "Add"]_vars

\* C5 witness: an Exists and an Info on a filter that holds bits.
ExistsAndInfoReadOnlyWitness ==
  /\ Running
  /\ last.op \in {"Exists", "Info"}
  /\ TrueBits(bf[inst]) # {}
  /\ TrueBits(bf[inst]) # DOMAIN bf[inst].Store

\* C6: on a filter of any size >= 1 on which Add was never called, Exists
\* is false for every key.
EmptyFilterRejects ==
  /\ (last.op = "Exists" /\ panic = NoPanic /\ added = {}) => ~last.ok
  /\ (Running /\ added = {} /\ bf[inst].Size >= 1) =>
       \A k \in Keys : ~ExistsOf(bf[inst], k).ok

\* C6 witness: Exists answered false on a fresh filter of size 1.
EmptyFilterRejectsWitness ==
  /\ Running
  /\ last.op = "Exists" /\ added = {} /\ ~last.ok
  /\ bf[inst].Size = 1

\* C7: in a filter of size 1, after any Add, Exists is true for every key.
SizeOneDegenerates ==
  /\ (last.op = "Exists" /\ panic = NoPanic
        /\ bf[inst].Size = 1 /\ added # {}) => last.ok
  /\ (Running /\ bf[inst].Size = 1 /\ added # {}) =>
       \A k \in Keys : ExistsOf(bf[inst], k).ok

\* C7 witness: after a single Add on a filter of size 1, Exists answered
\* true for a key that was never added.
SizeOneDegeneratesWitness ==
  /\ Running
  /\ bf[inst].Size = 1 /\ Cardinality(added) = 1
  /\ last.op = "Exists" /\ last.key \notin added /\ last.ok

\* C8: NewBloomFilter(size) fails for every size <= 0, so no filter with a
\* non-positive Size is ever available to Add or Exists.
ConstructionRejectsNonPositive ==
  /\ (last.op = "New" /\ last.arg <= 0) => panic # NoPanic
  /\ Live => bf[inst].Size >= 1

\* C9: on a filter of size >= 1 every Store index used by Add or Exists is
\* the digest reduced modulo Size and lies in 0..Size-1, and Add, Exists
\* and Info raise no runtime error.
IndicesInRange ==
  /\ (last.op \in {"Add", "Exists"} /\ bf[inst].Size >= 1) =>
       /\ panic = NoPanic
       /\ Len(last.idxs) = Len(last.digests)
       /\ \A j \in 1 .. Len(last.idxs) :
            /\ last.idxs[j] = last.digests[j] % bf[inst].Size
            /\ last.idxs[j] \in 0 .. bf[inst].Size - 1
            /\ last.idxs[j] + 1 \in DOMAIN bf[inst].Store
  /\ last.op = "Info" => panic = NoPanic

\* C9 witness: an Add that ran all K hash functions and reached the last
\* index of a Store of several bits.
IndicesInRangeWitness ==
  /\ Running
  /\ last.op = "Add" /\ bf[inst].Size >= 2
  /\ Len(last.idxs) = K
  /\ \E j \in 1 .. K : last.idxs[j] = bf[inst].Size - 1

\* C10: after every call each hasher is back in its initial seeded state, so
\* the digest of (key, i) is the same on every call, whatever calls preceded
\* it, and the same on another instance built with the same seeds.
DigestDeterminism ==
  /\ Live =>
       /\ Len(bf[inst].mHashers) = Len(Seeds)
       /\ \A j \in 1 .. Len(Seeds) :
            bf[inst].mHashers[j] = New128WithSeed(Seeds[j])
  /\ \A j \in 1 .. Len(last.digests) :
       last.digests[j] = Digest(last.key, j - 1)
  /\ Live =>
       \A j \in 1 .. Len(seen.digests) :
         ComputeMurmurHash(bf[inst], seen.key, j - 1).val = seen.digests[j]

\* C10 witness: a second instance is live and the digests of a key hashed
\* by all K hashers of the first instance are on record.
DigestDeterminismWitness ==
  /\ Running
  /\ inst = 2 /\ last.op = "New"
  /\ Len(seen.digests) = K

\* C11: the configuration of a filter is fixed for its lifetime.  Size is
\* the size passed to NewBloomFilter and no call changes it, len(Store) is
\* Size, there are 8 hashers, and Info reports that size and 8.
ConfigurationFixed ==
  /\ [](Live =>
          /\ (last.op = "New" => bf[inst].Size = last.arg)
          /\ Len(bf[inst].Store) = bf[inst].Size
          /\ Len(bf[inst].mHashers) = K
          /\ last.op = "Info" =>
               last.info = [size |-> bf[inst].Size, totalHashFuncs |-> K])
  /\ [][(Live /\ inst' = inst) =>
          /\ bf'[inst].Size = bf[inst].Size
          /\ Len(bf'[inst].Store) = Len(bf[inst].Store)
          /\ Len(bf'[inst].mHashers) = Len(bf[inst].mHashers)]_vars

\* C11 witness: Info reported the configuration of a filter of several bits
\* after keys were added to it.
ConfigurationFixedWitness ==
  /\ Running
  /\ last.op = "Info" /\ added # {}
  /\ last.info.size >= 2 /\ last.info.totalHashFuncs = K

\* C19: a positive answer never reverts.  A key for which Exists is true
\* before a step on a filter has Exists true after it; this holds for the
\* answer the preceding call returned and for the one the next call returns.
PositiveAnswersStay ==
  [][(Live /\ inst' = inst /\ panic' = NoPanic) =>
       /\ \A k \in Keys :
            ExistsOf(bf[inst], k).ok => ExistsOf(bf'[inst], k).ok
       /\ (last.op = "Exists" /\ last.ok) => ExistsOf(bf'[inst], last.key).ok
       /\ (last'.op = "Exists" /\ ExistsOf(bf[inst], last'.key).ok) =>
            last'.ok]_vars

\* C19 witness: Exists answered true for a key that was never added, in a
\* filter that holds other keys and is not full.
PositiveAnswersStayWitness ==
  /\ Running
  /\ last.op = "Exists" /\ last.ok /\ last.key \notin added
  /\ added # {}
  /\ TrueBits(bf[inst]) # DOMAIN bf[inst].Store

\* C20: Add is idempotent and order-independent.  From every reachable
\* filter, adding a key twice leaves the Store of adding it once, adding two
\* keys in either order leaves the same Store, and the Store is determined
\* by the set of keys added.
AddIdempotentCommutative ==
  (Running /\ bf[inst].Size >= 1) =>
    /\ \A a \in Keys :
         AddOf(AddOf(bf[inst], a).bf, a).bf.Store = AddOf(bf[inst], a).bf.Store
    /\ \A a, c \in Keys :
         AddOf(AddOf(bf[inst], a).bf, c).bf.Store
           = AddOf(AddOf(bf[inst], c).bf, a).bf.Store
    /\ bf[inst].Store =
         [j \in DOMAIN bf[inst].Store |->
            \E k \in added : (j - 1) \in BitIndices(k, bf[inst].Size)]

\* C20 witness: two keys are in a filter, each with a bit the other lacks.
AddIdempotentCommutativeWitness ==
  /\ Running
  /\ last.op = "Add"
  /\ \E a, c \in added :
       /\ BitIndices(a, bf[inst].Size) \ BitIndices(c, bf[inst].Size) # {}
       /\ BitIndices(c, bf[inst].Size) \ BitIndices(a, bf[inst].Size) # {}

\* The original statement of C17, for every n: generateDataset(n) returns
\* n/2 train keys, n - n/2 - 1 test keys, disjoint, and a dataset of length
\* n holding each of them once after one empty-string placeholder.
DatasetShape ==
  gen.pc = "ret" =>
    /\ Cardinality(trainDataset) = GoDiv(gen.n, 2)
    /\ Cardinality(testDataset) = gen.n - GoDiv(gen.n, 2) - 1
    /\ trainDataset \cap testDataset = {}
    /\ Len(dataset) = gen.n
    /\ dataset[1] = << >>
    /\ << >> \notin trainDataset \cup testDataset
    /\ \A id \in trainDataset \cup testDataset :
         Cardinality({j \in 1 .. Len(dataset) : dataset[j] = id}) = 1
    /\ \A j \in 2 .. Len(dataset) : dataset[j] \in trainDataset \cup testDataset

\* C17: for n >= 1, with pairwise distinct identifiers, generateDataset(n)
\* returns n/2 train keys, n - n/2 - 1 test keys, disjoint, and a dataset of
\* length n: one leading empty string that is in neither set, then every
\* train and test key exactly once.
DatasetShapeFromOne == gen.n >= 1 => DatasetShape

\* C17 witness: generateDataset returned with two keys in each set.
DatasetShapeWitness ==
  /\ gen.pc = "ret"
  /\ Cardinality(trainDataset) = 2 /\ Cardinality(testDataset) = 2
  /\ Len(dataset) = 5

\* The sizes the sweep is to visit.
CandidateSizes ==
  {FirstSize + StepSize * i : i \in 0 .. (BloomFilterSize - FirstSize) \div StepSize}

AllLaunched == mpc \notin {"gen", "loop"}

\* C12: the channel is closed only after every PerformTests goroutine has
\* been launched, has sent and has called wg.Done; no goroutine sends on the
\* closed channel; main drains only after the close.
BarrierOrdering ==
  /\ testResultsOutChan.closed =>
       /\ AllLaunched
       /\ {tr[g].bloomSize : g \in DOMAIN tr} = CandidateSizes
       /\ \A g \in DOMAIN tr : tr[g].pc = "exit"
       /\ wg = 0
  /\ panic # SendOnClosed
  /\ (mpc \in {"drain", "select", "done"} \/ testResults # << >>) =>
       testResultsOutChan.closed

\* C12 witness: main is draining a closed channel that holds the results of
\* several goroutines.
BarrierOrderingWitness ==
  /\ panic = NoPanic
  /\ mpc = "drain" /\ testResultsOutChan.closed
  /\ Len(testResultsOutChan.buf) >= 2

RECURSIVE AddAll(_, _)
AddAll(b, keys) ==
  IF keys = {} THEN b
  ELSE LET k == CHOOSE x \in keys : TRUE
       IN  AddAll(AddOf(b, k).bf, keys \ {k})

\* The falsePositives of a trial of the given size run on its own.
AloneFalsePositives(size) ==
  LET b == AddAll(NewFilter(size), trainDataset)
  IN  Cardinality({j \in 1 .. Len(dataset) :
                     dataset[j] \in testDataset /\ ExistsOf(b, dataset[j]).ok})

\* C13: each goroutine uses its own filter.  A step that is not a step of
\* goroutine g leaves g's filter as it was, and the falsePositives a trial
\* ends with is the count it gets when run alone.
TrialIsolation ==
  /\ [](/\ DOMAIN bf \subseteq DOMAIN tr
        /\ \A g \in DOMAIN tr :
             (panic = NoPanic /\ tr[g].pc \in {"send", "done", "exit"}) =>
               tr[g].falsePositives = AloneFalsePositives(tr[g].bloomSize))
  /\ [][\A g \in DOMAIN tr :
          (g \in DOMAIN bf /\ tr'[g] = tr[g]) =>
            (g \in DOMAIN bf' /\ bf'[g] = bf[g])]_vars

\* C13 witness: one goroutine has finished its count while another, of a
\* different size, is in the middle of its queries.
TrialIsolationWitness ==
  /\ panic = NoPanic
  /\ \E g, h \in DOMAIN tr :
       /\ tr[g].pc = "send" /\ tr[g].falsePositives > 0
       /\ tr[h].pc = "query" /\ tr[h].qi >= 2
       /\ \E j \in DOMAIN bf[g].Store : ~bf[g].Store[j]

\* C14: the sweep visits first size, first size + step, ... up to the
\* inclusive bound; one trial is launched per size and, after the drain, the
\* collected results hold exactly one record per size, in any order.  With
\* the constants of the source the sizes are 1000, 11000, ..., 91000.
OneRecordPerSize ==
  /\ SweepSizes(RefFirstSize, RefStepSize, RefBloomFilterSize)
       = [i \in 1 .. 10 |-> 1000 + 10000 * (i - 1)]
  /\ SweepSizes(RefBloomFilterSize, RefStepSize, RefBloomFilterSize)
       = <<RefBloomFilterSize>>
  /\ AllLaunched =>
       /\ Len(tr) = Cardinality(CandidateSizes)
       /\ {tr[g].bloomSize : g \in DOMAIN tr} = CandidateSizes
  /\ (panic = NoPanic /\ mpc \in {"select", "done"}) =>
       /\ Len(testResults) = Cardinality(CandidateSizes)
       /\ {testResults[j].bloomInfo.size : j \in DOMAIN testResults}
            = CandidateSizes

\* C14 witness: all results are drained, and not in launch order.
OneRecordPerSizeWitness ==
  /\ mpc = "done"
  /\ Len(testResults) >= 3
  /\ testResults[1].bloomInfo.size > testResults[2].bloomInfo.size

\* p < q on two percentages, by cross multiplication.
Below(p, q) == p.num * q.den < q.num * p.den

\* C15: the record selected as best is one of the collected records, none
\* of them has a smaller percentageFalsePositives, and among equal ones it
\* is the first drained.
BestIsMinimum ==
  (mpc = "done" /\ testResults # << >>) =>
    \E j \in DOMAIN testResults :
      /\ bestBloomFilter = testResults[j]
      /\ \A i \in DOMAIN testResults :
           /\ ~Below(testResults[i].percentageFalsePositives,
                     testResults[j].percentageFalsePositives)
           /\ i < j => Below(testResults[j].percentageFalsePositives,
                             testResults[i].percentageFalsePositives)

\* C15 witness: the best record was not drained first and beats the first.
BestIsMinimumWitness ==
  /\ mpc = "done"
  /\ bestBloomFilter # testResults[1]
  /\ Below(bestBloomFilter.percentageFalsePositives,
           testResults[1].percentageFalsePositives)

\* C16: every positive answer of Exists in a trial is counted as exactly
\* one of true positive and false positive.
PositivesClassified ==
  \A g \in DOMAIN tr :
    tr[g].positives = tr[g].truePositives + tr[g].falsePositives

\* C18: no goroutine ever finds the channel full when it is to send, and
\* under fair scheduling main reaches the end with the best record selected.
SweepTerminates ==
  /\ [](\A g \in DOMAIN tr :
          tr[g].pc = "send" =>
            Len(testResultsOutChan.buf) < ChanCap)
  /\ [](Cardinality(CandidateSizes) <= ChanCap)
  /\ <>(mpc = "done" /\ bestBloomFilter # NilResult)

\* C18 witness: main is done, every goroutine has exited and the channel is
\* empty.
SweepTerminatesWitness ==
  /\ mpc = "done" /\ bestBloomFilter # NilResult
  /\ wg = 0
  /\ \A g \in DOMAIN tr : tr[g].pc = "exit"
  /\ testResultsOutChan.buf = << >>

====
